---------------------------- MODULE Spec2Model ----------------------------
(***************************************************************************)
(* Petango Sync (src/run.py): the local record store and its               *)
(* reconciliation (sync_database), the fetch with its single retry, the    *)
(* store view pushed to the Google Sheet mirror, and the orchestration of  *)
(* manual, initial, scheduled and sheet-only runs by PetSyncGUI.           *)
(*                                                                         *)
(* A pet carries the descriptive fields name, species, breed and sexSN;    *)
(* age, location, detail_id and photo_url are carried through every        *)
(* statement of the source exactly like these four and are left out.       *)
(***************************************************************************)
EXTENDS Integers, Sequences, FiniteSets, TLC

\* ------------------------------------------------------------- bounds
\* worker threads that can exist at the same time
MaxRuns == 2
\* largest value of the wall clock
MaxTime == 3
\* most callbacks waiting in the Tk event queue
MaxQueue == 3
\* most list items on one page of the remote site
MaxPage == 2

\* ------------------------------------------------------------- data
\* Python None / SQL NULL
Null == "NULL"

Ids == {"A1", "A2"}

\* one parsed list item of the Petango page; id is Null when the item has
\* no list-animal-id block
Item(id, name) ==
    [id |-> id, name |-> name, species |-> "Dog", breed |-> Null, sexSN |-> "Male"]

\* the list items of the pages served when the reconciliation is exercised on
\* its own: A1 under two names, A2, and an item without id
DbItems == {Item("A1", "Rex"), Item("A1", "mia"), Item("A2", "Rex"), Item(Null, "Rex")}

SeqsUpTo(S, n) == UNION {[1..k -> S] : k \in 0..n}

\* a response of requests.get: a page, a timeout or a request failure
Responses(items, n) ==
    {[kind |-> "ok", items |-> p] : p \in SeqsUpTo(items, n)}
        \cup {[kind |-> "timeout", items |-> <<>>], [kind |-> "error", items |-> <<>>]}

\* the responses served to the runs of the pipeline: a page listing A1, a
\* page listing A2, a page whose only item has no id, and a timeout
RunResponses ==
    {[kind |-> "ok", items |-> <<Item("A1", "Rex")>>],
     [kind |-> "ok", items |-> <<Item("A2", "Rex")>>],
     [kind |-> "ok", items |-> <<Item(Null, "Rex")>>],
     [kind |-> "timeout", items |-> <<>>],
     [kind |-> "error", items |-> <<>>]}

\* the remote site is up: a page listing A1 or a page listing A2
UpResponses ==
    {[kind |-> "ok", items |-> <<Item("A1", "Rex")>>],
     [kind |-> "ok", items |-> <<Item("A2", "Rex")>>]}

\* the remote site is down: every request times out or fails
DownResponses ==
    {[kind |-> "timeout", items |-> <<>>], [kind |-> "error", items |-> <<>>]}

DbResponses == Responses(DbItems, MaxPage)

\* SQLite's BINARY collation on the names of the model, NULL first
NameOrder == <<Null, "Rex", "mia">>

NameRank(n) == CHOOSE i \in 1..Len(NameOrder) : NameOrder[i] = n

\* ------------------------------------------------------------- fetch
\* fetch_animals: no animals on a timeout or a request failure, otherwise
\* the items of the page that carry an id, in page order
FetchAnimals(resp) ==
    IF resp.kind # "ok" THEN <<>>
    ELSE SelectSeq(resp.items, LAMBDA it : it.id # Null)

\* the non-empty results of fetch_animals on these pages
Snapshots == {FetchAnimals(resp) : resp \in DbResponses} \ {<<>>}

\* a retry whatever the first fetch brought
RetryAlways(animals) == TRUE

\* sync_database: the first fetch brought nothing, so fetch_animals is called again
RetryNeeded(animals) == animals = <<>>

\* no ConnectionError, whatever the retry brought
NoDataNever(animals) == FALSE

\* sync_database: nothing was fetched after the retry, so ConnectionError is raised
NoData(animals) == animals = <<>>

\* ------------------------------------------------------------- store
\* a row written with archived = 1
PetRowArchived(a, t) ==
    [name |-> a.name, species |-> a.species, breed |-> a.breed, sexSN |-> a.sexSN,
     last_seen |-> t, archived |-> 1]

\* the row written for animal a at sync_time t (pet_details, archived = 0)
PetRow(a, t) ==
    [name |-> a.name, species |-> a.species, breed |-> a.breed, sexSN |-> a.sexSN,
     last_seen |-> t, archived |-> 0]

\* an UPDATE that writes archived = 1
UpdateRowArchives(old, a, t) == [PetRow(a, t) EXCEPT !.archived = 1]

\* an UPDATE that leaves the archived flag as it was
UpdateRowKeepsArchived(old, a, t) == [PetRow(a, t) EXCEPT !.archived = old.archived]

\* the UPDATE of an existing row: every descriptive field, last_seen, archived = 0
UpdateRow(old, a, t) == PetRow(a, t)

\* a pass that leaves a row that exists as it is
UpsertIgnoresExisting(st, a, t) ==
    IF a.id = Null \/ a.id \in DOMAIN st.db THEN st
    ELSE [st EXCEPT !.db = [i \in DOMAIN st.db \cup {a.id} |->
                               IF i = a.id THEN PetRow(a, t) ELSE st.db[i]],
                    !.inserted = st.inserted + 1]

\* one pass of the loop over animals_fetched: SELECT id, then UPDATE or INSERT
Upsert(st, a, t) ==
    IF a.id = Null THEN st
    ELSE IF a.id \in DOMAIN st.db
    THEN [st EXCEPT !.db = [st.db EXCEPT ![a.id] = UpdateRow(st.db[a.id], a, t)],
                    !.updated = st.updated + 1]
    ELSE [st EXCEPT !.db = [i \in DOMAIN st.db \cup {a.id} |->
                               IF i = a.id THEN PetRow(a, t) ELSE st.db[i]],
                    !.inserted = st.inserted + 1]

RECURSIVE UpsertAll(_, _, _, _)
UpsertAll(st, animals, i, t) ==
    IF i > Len(animals) THEN st
    ELSE UpsertAll(Upsert(st, animals[i], t), animals, i + 1, t)

ActiveIds(animals) == {animals[i].id : i \in 1..Len(animals)} \ {Null}

\* an archive step without the test of active_ids
ArchiveMissingUnguarded(db, active, t) ==
    [i \in DOMAIN db |->
        IF i \notin active /\ db[i].archived = 0
        THEN [db[i] EXCEPT !.archived = 1, !.last_seen = t]
        ELSE db[i]]

\* a DELETE of the rows the archive UPDATE would flag
ArchiveMissingDeletes(db, active, t) ==
    IF active = {} THEN db
    ELSE [i \in {j \in DOMAIN db : j \in active \/ db[j].archived = 1} |-> db[i]]

\* an archive UPDATE that sets the flag and leaves last_seen as it was
ArchiveMissingKeepsLastSeen(db, active, t) ==
    IF active = {} THEN db
    ELSE [i \in DOMAIN db |->
            IF i \notin active /\ db[i].archived = 0
            THEN [db[i] EXCEPT !.archived = 1]
            ELSE db[i]]

\* an archive UPDATE restricted to the rows last seen before this run
ArchiveMissingOnlyOlder(db, active, t) ==
    IF active = {} THEN db
    ELSE [i \in DOMAIN db |->
            IF i \notin active /\ db[i].archived = 0 /\ db[i].last_seen < t
            THEN [db[i] EXCEPT !.archived = 1, !.last_seen = t]
            ELSE db[i]]

\* no archive step at all
ArchiveMissingNone(db, active, t) == db

\* an archive UPDATE without "AND archived = 0": it stamps every absent row
ArchiveMissingRestamps(db, active, t) ==
    IF active = {} THEN db
    ELSE [i \in DOMAIN db |->
            IF i \notin active THEN [db[i] EXCEPT !.archived = 1, !.last_seen = t]
            ELSE db[i]]

\* the archive UPDATE: archived = 1, last_seen = t for the unarchived rows
\* whose id is not in active_ids; skipped when active_ids is empty
ArchiveMissing(db, active, t) ==
    IF active = {} THEN db
    ELSE [i \in DOMAIN db |->
            IF i \notin active /\ db[i].archived = 0
            THEN [db[i] EXCEPT !.archived = 1, !.last_seen = t]
            ELSE db[i]]

\* a count of every row whose id is not in active_ids
ArchivedCountAll(db, active) ==
    IF active = {} THEN 0
    ELSE Cardinality({i \in DOMAIN db : i \notin active})

\* archived_count: the rowcount of the archive UPDATE
ArchivedCount(db, active) ==
    IF active = {} THEN 0
    ELSE Cardinality({i \in DOMAIN db : i \notin active /\ db[i].archived = 0})

\* the transaction of sync_database on store db: the store it commits and
\* the three counts it logs
SyncTxn(db, animals, t) ==
    LET st == UpsertAll([db |-> db, inserted |-> 0, updated |-> 0], animals, 1, t)
    IN  [db |-> ArchiveMissing(st.db, ActiveIds(animals), t),
         inserted |-> st.inserted, updated |-> st.updated,
         archived |-> ArchivedCount(st.db, ActiveIds(animals))]

\* the pets table as init_db creates it
EmptyDb == [i \in {} |-> Null]

\* ------------------------------------------------------------- query
\* a row as fetch_filtered_pets_from_db returns it (PetSyncGUI.COLUMNS)
ViewRow(db, i) ==
    [id |-> i, name |-> db[i].name, species |-> db[i].species, breed |-> db[i].breed,
     sexSN |-> db[i].sexSN, archived |-> db[i].archived]

\* ORDER BY archived ASC, name ASC
RowLeq(a, b) ==
    \/ a.archived < b.archived
    \/ a.archived = b.archived /\ NameRank(a.name) <= NameRank(b.name)

\* the orders in which SQLite may return the rows: every arrangement that
\* satisfies the ORDER BY (rows that tie come in an unspecified order)
Orderings(rows) ==
    {s \in [1..Cardinality(rows) -> rows] :
        /\ \A i, j \in DOMAIN s : i # j => s[i] # s[j]
        /\ \A i, j \in DOMAIN s : i < j => RowLeq(s[i], s[j])}

\* fetch_filtered_pets_from_db(config, archived_filter = "All")
QueryAll(db) == Orderings({ViewRow(db, i) : i \in DOMAIN db})

\* ------------------------------------------------------------- filters
\* the list items of the pages served when the filters are exercised: A1 as
\* the dog Rex and as the cat mia, A2 as the dog mia of breed Lab with the
\* species in lower case, and A2 with no descriptive field
QueryItems ==
    {Item("A1", "Rex"),
     [id |-> "A1", name |-> "mia", species |-> "Cat", breed |-> Null, sexSN |-> "Male"],
     [id |-> "A2", name |-> "mia", species |-> "dog", breed |-> "Lab", sexSN |-> "Female"],
     [id |-> "A2", name |-> Null, species |-> Null, breed |-> Null, sexSN |-> Null]}

QueryResponses == {[kind |-> "ok", items |-> p] : p \in SeqsUpTo(QueryItems, MaxPage)}

\* the characters of the strings of the model
Spelling ==
    ("" :> <<>>) @@ ("All" :> <<"A", "l", "l">>)
        @@ ("A1" :> <<"A", "1">>) @@ ("A2" :> <<"A", "2">>)
        @@ ("Rex" :> <<"R", "e", "x">>) @@ ("mia" :> <<"m", "i", "a">>)
        @@ ("Dog" :> <<"D", "o", "g">>) @@ ("dog" :> <<"d", "o", "g">>)
        @@ ("Cat" :> <<"C", "a", "t">>) @@ ("Lab" :> <<"L", "a", "b">>)
        @@ ("Male" :> <<"M", "a", "l", "e">>)
        @@ ("Female" :> <<"F", "e", "m", "a", "l", "e">>)

\* the text the operator types into the search entry
SearchTerms ==
    {<<>>, <<"e">>, <<"E", "X">>, <<"d", "O">>, <<"l", "a">>, <<"1">>, <<"z">>,
     <<"_">>, <<"%">>}

\* the values of the three read-only comboboxes, and the empty string
SpeciesFilters == {"All", "", "Dog", "Cat"}

SexFilters == {"All", "", "Male", "Female"}

ArchivedFilters == {"Active", "Archived", "All"}

\* the arguments of fetch_filtered_pets_from_db
Filters(search_term, species_filter, sex_filter, archived_filter) ==
    [search_term |-> search_term, species_filter |-> species_filter,
     sex_filter |-> sex_filter, archived_filter |-> archived_filter]

\* archived_filter "All" and the defaults of the other arguments
NoFilters == Filters(<<>>, "All", "All", "All")

\* a LOWER that leaves every character as it is
LowerCharExact(c) == c

\* SQLite's LOWER on one character: the ASCII capitals are folded
LowerChar(c) ==
    CASE c = "A" -> "a" [] c = "C" -> "c" [] c = "D" -> "d" [] c = "E" -> "e"
      [] c = "F" -> "f" [] c = "L" -> "l" [] c = "M" -> "m" [] c = "O" -> "o"
      [] c = "R" -> "r" [] c = "X" -> "x" [] OTHER -> c

\* LOWER(x)
Lower(x) == [k \in DOMAIN x |-> LowerChar(x[k])]

\* x LIKE pattern: % stands for any run of characters, _ for any one character
RECURSIVE Like(_, _)
Like(x, pattern) ==
    IF pattern = <<>> THEN x = <<>>
    ELSE IF Head(pattern) = "%"
         THEN Like(x, Tail(pattern)) \/ (x # <<>> /\ Like(Tail(x), pattern))
    ELSE /\ x # <<>>
         /\ Head(pattern) = "_" \/ Head(pattern) = Head(x)
         /\ Like(Tail(x), Tail(pattern))

\* LOWER(col) LIKE LOWER(?) for search_like = f"%{search_term}%"; NULL when
\* the column is NULL, and then the row is not selected
SearchLike(value, search_term) ==
    /\ value # Null
    /\ Like(Lower(Spelling[value]), Lower(<<"%">> \o search_term \o <<"%">>))

\* LOWER(col) = LOWER(?)
EqualsLower(value, filter) ==
    /\ value # Null
    /\ Lower(Spelling[value]) = Lower(Spelling[filter])

\* the WHERE clause built from the arguments
Where(db, i, f) ==
    /\ f.search_term # <<>> =>
           \/ SearchLike(i, f.search_term)
           \/ SearchLike(db[i].name, f.search_term)
           \/ SearchLike(db[i].species, f.search_term)
           \/ SearchLike(db[i].breed, f.search_term)
    /\ (f.species_filter # "All" /\ f.species_filter # "") =>
           EqualsLower(db[i].species, f.species_filter)
    /\ (f.sex_filter # "All" /\ f.sex_filter # "") =>
           EqualsLower(db[i].sexSN, f.sex_filter)
    /\ f.archived_filter = "Active" => db[i].archived = 0
    /\ f.archived_filter = "Archived" => db[i].archived = 1

\* fetch_filtered_pets_from_db: the rows the query can return, in the orders
\* the ORDER BY allows
FetchFilteredPets(db, f) ==
    Orderings({ViewRow(db, i) : i \in {j \in DOMAIN db : Where(db, j, f)}})

\* every row of the store handed over, whatever the setting
PetsToSendAll(all_pets, sync_archived) == all_pets

\* the rows a run hands to update_google_sheet
PetsToSend(all_pets, sync_archived) ==
    IF sync_archived THEN all_pets
    ELSE SelectSeq(all_pets, LAMBDA p : p.archived = 0)

\* the sheet row written for a pet
SheetRow(p) ==
    [id |-> p.id, name |-> p.name, species |-> p.species, breed |-> p.breed,
     sexSN |-> p.sexSN, archived |-> IF p.archived = 1 THEN "Yes" ELSE "No"]

SheetRows(pets) == [i \in 1..Len(pets) |-> SheetRow(pets[i])]


\* ------------------------------------------------------------- state
VARIABLES
    sync_running,   \* PetSyncGUI.sync_running
    job,            \* the scheduler holds the job 'pet_sync_job'
    btn,            \* which of the four toolbar buttons accept a click
    status,         \* the text and colour of status_label
    config,         \* the AppSettings section of settings.ini
    db,             \* the pets table: id -> row
    sheet,          \* the content of the Google Sheet
    now,            \* the wall clock
    run,            \* the worker threads
    uiQueue,        \* callbacks handed to the Tk main loop with master.after
    lastSnap        \* history: the ids of the last snapshot that was committed

vars == <<sync_running, job, btn, status, config, db, sheet, now, run, uiQueue, lastSnap>>

Runs == 1..MaxRuns

\* a worker thread that does not exist; fetches, first_empty, retry_empty,
\* db_ops, pushes and revived record what the thread has done so far: the calls
\* of fetch_animals, whether the first and the second brought nothing, the
\* connections to the store, the calls of update_google_sheet, and the rows
\* its commit un-archived; work and pos are the pets table as the thread's open
\* transaction sees it and the position of the loop over animals_fetched;
\* filters are the arguments of a call of fetch_filtered_pets_from_db
NoRun ==
    [pc |-> "idle", kind |-> "none", current_time |-> 0, sync_time |-> 0,
     animals |-> <<>>, db_sync_ok |-> FALSE, gsheet_update_ok |-> FALSE,
     any_pets_for_sheet |-> FALSE, pets |-> <<>>, err |-> "none",
     fetches |-> 0, first_empty |-> FALSE, retry_empty |-> FALSE, db_ops |-> 0,
     pushes |-> 0, revived |-> {}, work |-> EmptyDb, pos |-> 0,
     filters |-> NoFilters]

\* the threads that have been started and have not yet returned
InFlight == {r \in Runs : run[r].pc # "idle"}

FreeSlot == CHOOSE r \in Runs : run[r].pc = "idle" /\ \A q \in Runs : q < r => run[q].pc # "idle"

HasFreeSlot == \E r \in Runs : run[r].pc = "idle"

\* threading.Thread(target = ...).start()
Spawn(kind) == [run EXCEPT ![FreeSlot] = [NoRun EXCEPT !.pc = "start", !.kind = kind]]

Callback(cb, msg, err) == [cb |-> cb, msg |-> msg, err |-> err]

Post(cbs) == uiQueue' = uiQueue \o cbs

CanPost(n) == Len(uiQueue) + n <= MaxQueue

\* update_button_states
ButtonStates(is_auto_syncing, operation_running) ==
    [start |-> ~(is_auto_syncing \/ operation_running),
     stop |-> is_auto_syncing /\ ~operation_running,
     manual_all |-> ~(is_auto_syncing \/ operation_running),
     manual_gsheet |-> ~(is_auto_syncing \/ operation_running)]

Init ==
    /\ sync_running = FALSE
    /\ job = FALSE
    /\ btn = ButtonStates(FALSE, FALSE)
    /\ status = [msg |-> "ready", err |-> FALSE]
    /\ config = [last_successful_sync_all |-> 0, last_successful_gsheet_update |-> 0,
                 sync_archived_to_gsheet |-> TRUE]
    /\ db = EmptyDb
    /\ sheet = [header |-> FALSE, rows |-> <<>>]
    /\ now = 1
    /\ run = [r \in Runs |-> NoRun]
    /\ uiQueue = <<Callback("refresh", "", FALSE)>>
    /\ lastSnap = {}

\* ------------------------------------------------------------- operator commands
\* a start that adds the job and starts no run of its own
StartAutoSyncTimerOnly ==
    /\ btn.start
    /\ ~sync_running
    /\ HasFreeSlot
    /\ sync_running' = TRUE
    /\ run' = run
    /\ job' = TRUE
    /\ status' = [msg |-> "auto_configured", err |-> FALSE]
    /\ btn' = ButtonStates(TRUE, FALSE)
    /\ UNCHANGED <<config, db, sheet, now, uiQueue, lastSnap>>

\* a start that turns auto sync on without scheduler.add_job
StartAutoSyncNoJob ==
    /\ btn.start
    /\ ~sync_running
    /\ HasFreeSlot
    /\ sync_running' = TRUE
    /\ run' = Spawn("initial")
    /\ job' = job
    /\ status' = [msg |-> "auto_configured", err |-> FALSE]
    /\ btn' = ButtonStates(TRUE, FALSE)
    /\ UNCHANGED <<config, db, sheet, now, uiQueue, lastSnap>>

\* start_auto_sync, invoked by the Start Auto Sync button
StartAutoSync ==
    /\ btn.start
    /\ ~sync_running
    /\ HasFreeSlot
    /\ sync_running' = TRUE
    /\ run' = Spawn("initial")
    /\ job' = TRUE
    /\ status' = [msg |-> "auto_configured", err |-> FALSE]
    /\ btn' = ButtonStates(TRUE, FALSE)
    /\ UNCHANGED <<config, db, sheet, now, uiQueue, lastSnap>>

\* a stop that leaves the job with the scheduler
StopAutoSyncKeepsJob ==
    /\ btn.stop
    /\ sync_running
    /\ job' = job
    /\ sync_running' = FALSE
    /\ status' = [msg |-> "auto_stopped", err |-> FALSE]
    /\ btn' = ButtonStates(FALSE, FALSE)
    /\ UNCHANGED <<config, db, sheet, now, run, uiQueue, lastSnap>>

\* stop_auto_sync, invoked by the Stop Auto Sync button
StopAutoSync ==
    /\ btn.stop
    /\ sync_running
    /\ job' = FALSE
    /\ sync_running' = FALSE
    /\ status' = [msg |-> "auto_stopped", err |-> FALSE]
    /\ btn' = ButtonStates(FALSE, FALSE)
    /\ UNCHANGED <<config, db, sheet, now, run, uiQueue, lastSnap>>

\* trigger_manual_sync_all, invoked by the Manual Sync All button
TriggerManualSyncAll ==
    /\ btn.manual_all
    /\ HasFreeSlot
    /\ status' = [msg |-> "requested", err |-> FALSE]
    /\ btn' = ButtonStates(sync_running, TRUE)
    /\ run' = Spawn("manual")
    /\ UNCHANGED <<sync_running, job, config, db, sheet, now, uiQueue, lastSnap>>

\* trigger_manual_gsheet_update, invoked by the Update GSheet Only button
TriggerManualGsheetUpdate ==
    /\ btn.manual_gsheet
    /\ HasFreeSlot
    /\ status' = [msg |-> "requested", err |-> FALSE]
    /\ btn' = ButtonStates(sync_running, TRUE)
    /\ run' = Spawn("gsheet")
    /\ UNCHANGED <<sync_running, job, config, db, sheet, now, uiQueue, lastSnap>>

\* _on_sync_archived_setting_change, invoked by the settings menu
SyncArchivedSettingChange ==
    /\ config' = [config EXCEPT !.sync_archived_to_gsheet = ~@]
    /\ UNCHANGED <<sync_running, job, btn, status, db, sheet, now, run, uiQueue, lastSnap>>

\* _scheduled_sync_all_task, invoked by the scheduler when the interval elapses
ScheduledSyncAllTask ==
    /\ job
    /\ HasFreeSlot
    /\ run' = Spawn("scheduled")
    /\ UNCHANGED <<sync_running, job, btn, status, config, db, sheet, now, uiQueue, lastSnap>>

\* the wall clock advances
ClockTick ==
    /\ now < MaxTime
    /\ now' = now + 1
    /\ UNCHANGED <<sync_running, job, btn, status, config, db, sheet, run, uiQueue, lastSnap>>

\* ------------------------------------------------------------- worker threads
\* _perform_sync_and_update_all and _perform_gsheet_update_task up to the
\* try: the status callback is posted and current_time_str is read
RunBegin(r) ==
    /\ run[r].pc = "start"
    /\ CanPost(1)
    /\ Post(<<Callback("status", "in_progress", FALSE)>>)
    /\ run' = [run EXCEPT ![r].current_time = now,
                          ![r].pc = IF run[r].kind = "gsheet" THEN "query" ELSE "fetch1"]
    /\ UNCHANGED <<sync_running, job, btn, status, config, db, sheet, now, lastSnap>>

\* sync_database: sync_time is read and fetch_animals() is called
Fetch1(r, resp) ==
    /\ run[r].pc = "fetch1"
    /\ LET animals == FetchAnimals(resp)
       IN  run' = [run EXCEPT ![r].sync_time = now,
                              ![r].animals = animals,
                              ![r].fetches = @ + 1,
                              ![r].first_empty = (animals = <<>>),
                              ![r].pc = IF RetryNeeded(animals) THEN "fetch2" ELSE "txn"]
    /\ UNCHANGED <<sync_running, job, btn, status, config, db, sheet, now, uiQueue, lastSnap>>

\* sync_database: the retry, and ConnectionError when it brings nothing either
Fetch2(r, resp) ==
    /\ run[r].pc = "fetch2"
    /\ LET animals == FetchAnimals(resp)
       IN  run' = [run EXCEPT ![r].animals = animals,
                              ![r].fetches = @ + 1,
                              ![r].retry_empty = (animals = <<>>),
                              ![r].err = IF NoData(animals) THEN "ConnectionError" ELSE @,
                              ![r].pc = IF NoData(animals) THEN "finish" ELSE "txn"]
    /\ UNCHANGED <<sync_running, job, btn, status, config, db, sheet, now, uiQueue, lastSnap>>

\* sync_database: the transaction commits
Reconcile(r) ==
    /\ run[r].pc = "txn"
    /\ db' = SyncTxn(db, run[r].animals, run[r].sync_time).db
    /\ lastSnap' = ActiveIds(run[r].animals)
    /\ run' = [run EXCEPT ![r].db_sync_ok = TRUE, ![r].db_ops = @ + 1,
                          ![r].revived = {i \in DOMAIN db \cap ActiveIds(run[r].animals) :
                                             db[i].archived = 1},
                          ![r].animals = <<>>, ![r].pc = "query"]
    /\ UNCHANGED <<sync_running, job, btn, status, config, sheet, now, uiQueue>>

\* sqlite3.Error logged and not raised again: the run goes on as after a commit
ReconcileErrorSwallowed(r) ==
    /\ run[r].pc = "txn"
    /\ run' = [run EXCEPT ![r].err = "sqlite3.Error", ![r].db_sync_ok = TRUE,
                          ![r].db_ops = @ + 1, ![r].animals = <<>>, ![r].pc = "query"]
    /\ UNCHANGED <<sync_running, job, btn, status, config, db, sheet, now, uiQueue, lastSnap>>

\* sqlite3.Error after which the run goes on to read the store for the sheet
ReconcileErrorContinues(r) ==
    /\ run[r].pc = "txn"
    /\ run' = [run EXCEPT ![r].err = "sqlite3.Error", ![r].db_ops = @ + 1,
                          ![r].animals = <<>>, ![r].pc = "query"]
    /\ UNCHANGED <<sync_running, job, btn, status, config, db, sheet, now, uiQueue, lastSnap>>

\* sync_database: sqlite3.Error inside the with block, which rolls back
ReconcileError(r) ==
    /\ run[r].pc = "txn"
    /\ run' = [run EXCEPT ![r].err = "sqlite3.Error", ![r].db_ops = @ + 1,
                          ![r].animals = <<>>, ![r].pc = "finish"]
    /\ UNCHANGED <<sync_running, job, btn, status, config, db, sheet, now, uiQueue, lastSnap>>

\* a read that sees the uncommitted writes of an open transaction
QueryForSheetDirty(r, all_pets) ==
    /\ run[r].pc = "query"
    /\ \E w \in Runs :
          /\ run[w].pc \in {"upsert", "commit"}
          /\ \E seen \in QueryAll(run[w].work) :
                run' = [run EXCEPT ![r].any_pets_for_sheet = (seen # <<>>),
                                   ![r].db_ops = @ + 1,
                                   ![r].pets = seen,
                                   ![r].gsheet_update_ok = (seen = <<>>),
                                   ![r].pc = "save"]
    /\ UNCHANGED <<sync_running, job, btn, status, config, db, sheet, now, uiQueue, lastSnap>>

\* the read of the store for the sheet and the choice of the rows to send;
\* all_pets is [] when fetch_filtered_pets_from_db met sqlite3.Error
QueryForSheet(r, all_pets) ==
    /\ run[r].pc = "query"
    /\ LET any  == all_pets # <<>>
           send == PetsToSend(all_pets, config.sync_archived_to_gsheet)
       IN  run' = [run EXCEPT
                ![r].any_pets_for_sheet = any,
                ![r].db_ops = @ + 1,
                ![r].pets = IF any THEN send ELSE <<>>,
                ![r].gsheet_update_ok = ~any \/ send = <<>>,
                ![r].pc = IF any /\ send # <<>> THEN "push"
                          ELSE IF run[r].kind = "gsheet" /\ ~any THEN "finish"
                          ELSE "save"]
    /\ UNCHANGED <<sync_running, job, btn, status, config, db, sheet, now, uiQueue, lastSnap>>

\* an update that writes below the rows of the sheet without sh.clear()
PushToSheetAppends(r, outcome) ==
    /\ run[r].pc = "push"
    /\ sheet' = CASE outcome = "open_failed"   -> sheet
                  [] outcome = "update_failed" -> [header |-> FALSE, rows |-> <<>>]
                  [] OTHER -> [header |-> TRUE, rows |-> sheet.rows \o SheetRows(run[r].pets)]
    /\ run' = [run EXCEPT ![r].gsheet_update_ok = (outcome = "ok"),
                          ![r].pushes = @ + 1,
                          ![r].pets = <<>>,
                          ![r].pc = IF run[r].kind = "gsheet" /\ outcome # "ok"
                                    THEN "finish" ELSE "save"]
    /\ UNCHANGED <<sync_running, job, btn, status, config, db, now, uiQueue, lastSnap>>

\* update_google_sheet(pets_to_send_to_gsheet): the sheet is cleared and
\* rewritten; a failure may come before the clear, after it, or after the rows
\* are written, and each makes the function return False
PushToSheet(r, outcome) ==
    /\ run[r].pc = "push"
    /\ sheet' = CASE outcome = "open_failed"   -> sheet
                  [] outcome = "update_failed" -> [header |-> FALSE, rows |-> <<>>]
                  [] OTHER -> [header |-> TRUE, rows |-> SheetRows(run[r].pets)]
    /\ run' = [run EXCEPT ![r].gsheet_update_ok = (outcome = "ok"),
                          ![r].pushes = @ + 1,
                          ![r].pets = <<>>,
                          ![r].pc = IF run[r].kind = "gsheet" /\ outcome # "ok"
                                    THEN "finish" ELSE "save"]
    /\ UNCHANGED <<sync_running, job, btn, status, config, db, now, uiQueue, lastSnap>>

PushOutcomes == {"ok", "open_failed", "update_failed", "format_failed"}

\* timestamps saved as soon as the store was synchronised
SavesTimestampsDbOnly(rn) == rn.db_sync_ok

\* whether a full run saves its timestamps
SavesTimestamps(rn) == rn.db_sync_ok /\ rn.gsheet_update_ok

\* the value a full run writes to last_successful_sync_all
SyncAllStamp(rn) == rn.current_time

\* the timestamp of sync_database written in place of current_time_str
GsheetStampSyncTime(rn) == rn.sync_time

\* the value a run writes to last_successful_gsheet_update
GsheetStamp(rn) == rn.current_time

\* _save_app_setting('last_successful_sync_all', current_time_str) of a full run
SaveSyncAll(r) ==
    /\ run[r].pc = "save"
    /\ run[r].kind # "gsheet"
    /\ IF SavesTimestamps(run[r])
       THEN /\ config' = [config EXCEPT !.last_successful_sync_all = SyncAllStamp(run[r])]
            /\ run' = [run EXCEPT ![r].pc = "save_gsheet"]
       ELSE /\ config' = config
            /\ run' = [run EXCEPT ![r].pc = "finish"]
    /\ UNCHANGED <<sync_running, job, btn, status, db, sheet, now, uiQueue, lastSnap>>

\* a save that writes current_time_str to both timestamps
SaveGsheetUpdateStampsBoth(r) ==
    /\ \/ run[r].pc = "save_gsheet"
       \/ run[r].pc = "save" /\ run[r].kind = "gsheet"
    /\ config' = [config EXCEPT !.last_successful_gsheet_update = GsheetStamp(run[r]),
                                !.last_successful_sync_all = GsheetStamp(run[r])]
    /\ run' = [run EXCEPT ![r].pc = "finish"]
    /\ UNCHANGED <<sync_running, job, btn, status, db, sheet, now, uiQueue, lastSnap>>

\* _save_app_setting('last_successful_gsheet_update', current_time_str)
SaveGsheetUpdate(r) ==
    /\ \/ run[r].pc = "save_gsheet"
       \/ run[r].pc = "save" /\ run[r].kind = "gsheet"
    /\ config' = [config EXCEPT !.last_successful_gsheet_update = GsheetStamp(run[r])]
    /\ run' = [run EXCEPT ![r].pc = "finish"]
    /\ UNCHANGED <<sync_running, job, btn, status, db, sheet, now, uiQueue, lastSnap>>

\* a final status that knows success and failure of the store only
FinalStatusStoreOnly(rn) ==
    IF rn.db_sync_ok THEN Callback("status", "complete", FALSE)
    ELSE Callback("status", "db_failed", TRUE)

\* the status a run reports when it ends
FinalStatus(rn) ==
    IF rn.kind = "gsheet"
    THEN IF ~rn.any_pets_for_sheet THEN Callback("status", "no_data", FALSE)
         ELSE IF rn.gsheet_update_ok THEN Callback("status", "gsheet_complete", FALSE)
         ELSE Callback("status", "gsheet_failed", TRUE)
    ELSE IF rn.err = "ConnectionError" THEN Callback("status", "fetch_failed", TRUE)
    ELSE IF rn.err = "sqlite3.Error" THEN Callback("status", "db_failed", TRUE)
    ELSE IF rn.db_sync_ok /\ rn.any_pets_for_sheet /\ ~rn.gsheet_update_ok
         THEN Callback("status", "db_ok_gsheet_failed", TRUE)
    ELSE Callback("status", "complete", FALSE)

\* the callbacks a run hands to the main loop when it ends: its status, the
\* table refresh after a committed sync, and update_button_states
FinalCallbacks(rn) ==
    <<FinalStatus(rn)>>
        \o (IF rn.kind # "gsheet" /\ rn.db_sync_ok /\ rn.err = "none"
            THEN <<Callback("refresh", "", FALSE)>> ELSE <<>>)
        \o <<Callback("buttons", "", FALSE)>>

\* the end of the thread: the status and the finally clause
Finish(r) ==
    /\ run[r].pc = "finish"
    /\ CanPost(Len(FinalCallbacks(run[r])))
    /\ Post(FinalCallbacks(run[r]))
    /\ run' = [run EXCEPT ![r] = NoRun]
    /\ UNCHANGED <<sync_running, job, btn, status, config, db, sheet, now, lastSnap>>

\* ------------------------------------------------------------- main loop
\* refresh_pet_table with the filters of the constructor (Status: Active)
RefreshStatus ==
    IF \E i \in DOMAIN db : db[i].archived = 0
    THEN [msg |-> "refreshed", err |-> FALSE]
    ELSE [msg |-> "no_match", err |-> FALSE]

\* the status lambdas of the except clauses format the exception e when the
\* main loop calls them; e is unbound once the thread has left the clause
ReadsE(c) == c.cb = "status" /\ c.msg \in {"fetch_failed", "db_failed"}

\* the Tk main loop runs the callback at the head of its queue; a lambda that
\* reads e sets the status if the thread is still inside its except clause and
\* raises NameError, which Tk logs, if the thread has left it
UiCallback ==
    /\ uiQueue # <<>>
    /\ uiQueue' = Tail(uiQueue)
    /\ LET c == Head(uiQueue)
       IN  /\ \/ status' = CASE c.cb = "status" -> [msg |-> c.msg, err |-> c.err]
                             [] c.cb = "refresh" -> RefreshStatus
                             [] OTHER -> status
              \/ ReadsE(c) /\ status' = status
           /\ btn' = IF c.cb = "buttons" THEN ButtonStates(sync_running, FALSE) ELSE btn
    /\ UNCHANGED <<sync_running, job, config, db, sheet, now, run, lastSnap>>

\* ------------------------------------------------------------- direct calls
\* sync_database() called on its own, one call after the other
CallSyncDatabase ==
    /\ InFlight = {}
    /\ run' = [run EXCEPT ![FreeSlot] = [NoRun EXCEPT !.pc = "fetch1", !.kind = "call"]]
    /\ UNCHANGED <<sync_running, job, btn, status, config, db, sheet, now, uiQueue, lastSnap>>

\* sync_database() returns or raises to its caller
SyncDatabaseReturn(r) ==
    /\ run[r].kind = "call"
    /\ run[r].pc \in {"query", "finish"}
    /\ run' = [run EXCEPT ![r] = NoRun]
    /\ UNCHANGED <<sync_running, job, btn, status, config, db, sheet, now, uiQueue, lastSnap>>

\* sync_database() entered by a worker thread while another worker thread
\* may be inside it: no thread looks for a running one before it starts
CallSyncDatabaseOverlapping ==
    /\ HasFreeSlot
    /\ run' = [run EXCEPT ![FreeSlot] = [NoRun EXCEPT !.pc = "fetch1", !.kind = "call"]]
    /\ UNCHANGED <<sync_running, job, btn, status, config, db, sheet, now, uiQueue, lastSnap>>

\* ------------------------------------------------------------- transaction steps
\* The transaction of sync_database statement by statement. The writes of an
\* open sqlite3 transaction are seen by its own connection only (work); the
\* pets table every other connection reads (db) changes at conn.commit().
InTxn == {r \in Runs : run[r].pc \in {"upsert", "commit"}}

\* with sqlite3.connect(DB_PATH) as conn
TxnOpen(r) ==
    /\ run[r].pc = "txn"
    /\ InTxn = {}
    /\ run' = [run EXCEPT ![r].work = db, ![r].pos = 1, ![r].db_ops = @ + 1,
                          ![r].pc = "upsert"]
    /\ UNCHANGED <<sync_running, job, btn, status, config, db, sheet, now, uiQueue, lastSnap>>

\* one pass of the loop over animals_fetched
TxnUpsert(r) ==
    /\ run[r].pc = "upsert"
    /\ run[r].pos <= Len(run[r].animals)
    /\ run' = [run EXCEPT
                  ![r].work = Upsert([db |-> run[r].work, inserted |-> 0, updated |-> 0],
                                     run[r].animals[run[r].pos], run[r].sync_time).db,
                  ![r].pos = @ + 1]
    /\ UNCHANGED <<sync_running, job, btn, status, config, db, sheet, now, uiQueue, lastSnap>>

\* the archive UPDATE after the loop
TxnArchive(r) ==
    /\ run[r].pc = "upsert"
    /\ run[r].pos > Len(run[r].animals)
    /\ run' = [run EXCEPT
                  ![r].work = ArchiveMissing(run[r].work, ActiveIds(run[r].animals),
                                             run[r].sync_time),
                  ![r].pc = "commit"]
    /\ UNCHANGED <<sync_running, job, btn, status, config, db, sheet, now, uiQueue, lastSnap>>

\* conn.commit(): the writes of the transaction become the pets table
TxnCommit(r) ==
    /\ run[r].pc = "commit"
    /\ db' = run[r].work
    /\ lastSnap' = ActiveIds(run[r].animals)
    /\ run' = [run EXCEPT ![r].db_sync_ok = TRUE,
                          ![r].revived = {i \in DOMAIN db \cap ActiveIds(run[r].animals) :
                                             db[i].archived = 1},
                          ![r].work = EmptyDb, ![r].pc = "query"]
    /\ UNCHANGED <<sync_running, job, btn, status, config, sheet, now, uiQueue>>

\* an error that ends the transaction with its writes made permanent
TxnErrorKeepsWrites(r) ==
    /\ run[r].pc \in {"upsert", "commit"}
    /\ db' = run[r].work
    /\ run' = [run EXCEPT ![r].err = "sqlite3.Error", ![r].work = EmptyDb,
                          ![r].pc = "finish"]
    /\ UNCHANGED <<sync_running, job, btn, status, config, sheet, now, uiQueue, lastSnap>>

\* sqlite3.Error at a statement of the transaction or at the commit: the with
\* block rolls back and the error is raised again
TxnError(r) ==
    /\ run[r].pc \in {"upsert", "commit"}
    /\ run' = [run EXCEPT ![r].err = "sqlite3.Error", ![r].work = EmptyDb,
                          ![r].pc = "finish"]
    /\ UNCHANGED <<sync_running, job, btn, status, config, db, sheet, now, uiQueue, lastSnap>>

\* the process ends while the transaction is open (the worker threads are
\* daemon threads): the journal is rolled back at the next connect
TxnCrash(r) ==
    /\ run[r].pc \in {"upsert", "commit"}
    /\ run' = [q \in Runs |-> NoRun]
    /\ UNCHANGED <<sync_running, job, btn, status, config, db, sheet, now, uiQueue, lastSnap>>

\* fetch_filtered_pets_from_db called on its own while a reconciliation may
\* be under way, as refresh_pet_table does on the main thread
CallQuery ==
    /\ HasFreeSlot
    /\ \A q \in Runs : run[q].kind # "read"
    /\ run' = [run EXCEPT ![FreeSlot] = [NoRun EXCEPT !.pc = "query", !.kind = "read"]]
    /\ UNCHANGED <<sync_running, job, btn, status, config, db, sheet, now, uiQueue, lastSnap>>

\* fetch_filtered_pets_from_db returns to its caller
QueryReturn(r) ==
    /\ run[r].kind = "read"
    /\ run[r].pc \in {"push", "save"}
    /\ run' = [run EXCEPT ![r] = NoRun]
    /\ UNCHANGED <<sync_running, job, btn, status, config, db, sheet, now, uiQueue, lastSnap>>

\* refresh_pet_table reads the filter bar and calls
\* fetch_filtered_pets_from_db while no run is executing
CallFetchFiltered(search_term, species_filter, sex_filter, archived_filter) ==
    /\ InFlight = {}
    /\ run' = [run EXCEPT ![FreeSlot] =
                  [NoRun EXCEPT !.pc = "select", !.kind = "read",
                                !.filters = Filters(search_term, species_filter,
                                                    sex_filter, archived_filter)]]
    /\ UNCHANGED <<sync_running, job, btn, status, config, db, sheet, now, uiQueue, lastSnap>>

\* cursor.execute(query, params) and cursor.fetchall()
FetchFiltered(r, pets) ==
    /\ run[r].pc = "select"
    /\ pets \in FetchFilteredPets(db, run[r].filters)
    /\ run' = [run EXCEPT ![r].pets = pets, ![r].db_ops = @ + 1, ![r].pc = "shown"]
    /\ UNCHANGED <<sync_running, job, btn, status, config, db, sheet, now, uiQueue, lastSnap>>

\* sqlite3.Error in the query: it is logged and the empty list is returned
FetchFilteredError(r) ==
    /\ run[r].pc = "select"
    /\ run' = [run EXCEPT ![r].pets = <<>>, ![r].err = "sqlite3.Error",
                          ![r].db_ops = @ + 1, ![r].pc = "shown"]
    /\ UNCHANGED <<sync_running, job, btn, status, config, db, sheet, now, uiQueue, lastSnap>>

\* fetch_filtered_pets_from_db has returned and the table is filled
FetchFilteredReturn(r) ==
    /\ run[r].pc = "shown"
    /\ run' = [run EXCEPT ![r] = NoRun]
    /\ UNCHANGED <<sync_running, job, btn, status, config, db, sheet, now, uiQueue, lastSnap>>

\* ------------------------------------------------------------- specifications
\* the pipeline of a run: full and sheet-only runs started by the manual
\* commands, which the buttons keep from overlapping
Next ==
    \/ TriggerManualSyncAll
    \/ TriggerManualGsheetUpdate
    \/ SyncArchivedSettingChange
    \/ ClockTick
    \/ UiCallback
    \/ \E r \in Runs : RunBegin(r)
    \/ \E r \in Runs, resp \in RunResponses : Fetch1(r, resp)
    \/ \E r \in Runs, resp \in RunResponses : Fetch2(r, resp)
    \/ \E r \in Runs : Reconcile(r)
    \/ \E r \in Runs : ReconcileError(r)
    \/ \E r \in Runs, all_pets \in QueryAll(db) \cup {<<>>} : QueryForSheet(r, all_pets)
    \/ \E r \in Runs, outcome \in PushOutcomes : PushToSheet(r, outcome)
    \/ \E r \in Runs : SaveSyncAll(r)
    \/ \E r \in Runs : SaveGsheetUpdate(r)
    \/ \E r \in Runs : Finish(r)

Spec == Init /\ [][Next]_vars

\* the orchestration: every command and the scheduler, with worker threads
\* that overlap, while the remote site is down and the store is empty
NextOrch ==
    \/ StartAutoSync
    \/ StopAutoSync
    \/ TriggerManualSyncAll
    \/ TriggerManualGsheetUpdate
    \/ ScheduledSyncAllTask
    \/ UiCallback
    \/ \E r \in Runs : RunBegin(r)
    \/ \E r \in Runs, resp \in DownResponses : Fetch1(r, resp)
    \/ \E r \in Runs, resp \in DownResponses : Fetch2(r, resp)
    \/ \E r \in Runs, all_pets \in QueryAll(db) \cup {<<>>} : QueryForSheet(r, all_pets)
    \/ \E r \in Runs : Finish(r)

SpecOrch == Init /\ [][NextOrch]_vars

\* auto sync on its own: start, stop and the ticks of the scheduler
NextStop ==
    \/ StartAutoSync
    \/ StopAutoSync
    \/ ScheduledSyncAllTask
    \/ UiCallback
    \/ \E r \in Runs : RunBegin(r)
    \/ \E r \in Runs, resp \in DownResponses : Fetch1(r, resp)
    \/ \E r \in Runs, resp \in DownResponses : Fetch2(r, resp)
    \/ \E r \in Runs : Finish(r)

\* every thread is scheduled again and again and the main loop keeps running
\* its callbacks; the operator and the scheduler are under no obligation.
\* master.after never blocks, so a thread that is about to post is not held up
\* for ever: the steps that post are taken if they can be taken again and again
FairStop ==
    /\ WF_vars(UiCallback)
    /\ \A r \in Runs :
          /\ SF_vars(RunBegin(r))
          /\ WF_vars(\E resp \in DownResponses : Fetch1(r, resp))
          /\ WF_vars(\E resp \in DownResponses : Fetch2(r, resp))
          /\ SF_vars(Finish(r))

SpecStopFair == Init /\ [][NextStop]_vars /\ FairStop

\* sync_database exercised on its own on pages of up to MaxPage items
NextSync ==
    \/ CallSyncDatabase
    \/ ClockTick
    \/ \E r \in Runs, resp \in DbResponses : Fetch1(r, resp)
    \/ \E r \in Runs, resp \in DbResponses : Fetch2(r, resp)
    \/ \E r \in Runs : Reconcile(r)
    \/ \E r \in Runs : ReconcileError(r)
    \/ \E r \in Runs : SyncDatabaseReturn(r)

SpecSync == Init /\ [][NextSync]_vars

\* sync_database statement by statement, with a reader of the pets table
NextTxn ==
    \/ CallSyncDatabase
    \/ CallQuery
    \/ \E r \in Runs, resp \in DbResponses : Fetch1(r, resp)
    \/ \E r \in Runs, resp \in DbResponses : Fetch2(r, resp)
    \/ \E r \in Runs : TxnOpen(r)
    \/ \E r \in Runs : TxnUpsert(r)
    \/ \E r \in Runs : TxnArchive(r)
    \/ \E r \in Runs : TxnCommit(r)
    \/ \E r \in Runs : TxnError(r)
    \/ \E r \in Runs : TxnCrash(r)
    \/ \E r \in Runs, all_pets \in QueryAll(db) \cup {<<>>} : QueryForSheet(r, all_pets)
    \/ \E r \in Runs : QueryReturn(r)
    \/ \E r \in Runs : SyncDatabaseReturn(r)

SpecTxn == Init /\ [][NextTxn]_vars

\* calls of sync_database that overlap, each committing its own snapshot;
\* the remote site answers every request with a page that lists an animal, so
\* no call needs its retry
NextOverlap ==
    \/ CallSyncDatabaseOverlapping
    \/ ClockTick
    \/ \E r \in Runs, resp \in UpResponses : Fetch1(r, resp)
    \/ \E r \in Runs : Reconcile(r)
    \/ \E r \in Runs : ReconcileError(r)
    \/ \E r \in Runs : SyncDatabaseReturn(r)

SpecOverlap == Init /\ [][NextOverlap]_vars

\* the remote site answers with a page listing A1 or not at all
LiveResponses ==
    {[kind |-> "ok", items |-> <<Item("A1", "Rex")>>],
     [kind |-> "timeout", items |-> <<>>]}

\* runs of every kind through the whole pipeline, each stage able to fail;
\* the ticks of the scheduler, an hour apart, come when no run is executing
NextLive ==
    \/ StartAutoSync
    \/ (InFlight = {} /\ ScheduledSyncAllTask)
    \/ TriggerManualSyncAll
    \/ TriggerManualGsheetUpdate
    \/ UiCallback
    \/ \E r \in Runs : RunBegin(r)
    \/ \E r \in Runs, resp \in LiveResponses : Fetch1(r, resp)
    \/ \E r \in Runs, resp \in LiveResponses : Fetch2(r, resp)
    \/ \E r \in Runs : Reconcile(r)
    \/ \E r \in Runs : ReconcileError(r)
    \/ \E r \in Runs, all_pets \in QueryAll(db) \cup {<<>>} : QueryForSheet(r, all_pets)
    \/ \E r \in Runs, outcome \in PushOutcomes : PushToSheet(r, outcome)
    \/ \E r \in Runs : SaveSyncAll(r)
    \/ \E r \in Runs : SaveGsheetUpdate(r)
    \/ \E r \in Runs : Finish(r)

\* every thread is scheduled again and again, every call of a collaborator
\* returns, and the main loop keeps running its callbacks
FairLive ==
    /\ WF_vars(UiCallback)
    /\ \A r \in Runs :
          /\ SF_vars(RunBegin(r))
          /\ WF_vars(\E resp \in LiveResponses : Fetch1(r, resp))
          /\ WF_vars(\E resp \in LiveResponses : Fetch2(r, resp))
          /\ WF_vars(Reconcile(r) \/ ReconcileError(r))
          /\ WF_vars(\E all_pets \in QueryAll(db) \cup {<<>>} : QueryForSheet(r, all_pets))
          /\ WF_vars(\E outcome \in PushOutcomes : PushToSheet(r, outcome))
          /\ WF_vars(SaveSyncAll(r))
          /\ WF_vars(SaveGsheetUpdate(r))
          /\ SF_vars(Finish(r))

SpecLive == Init /\ [][NextLive]_vars /\ FairLive

\* fetch_filtered_pets_from_db with every setting of the filter bar, on the
\* stores sync_database builds from the pages of QueryItems
NextQuery ==
    \/ CallSyncDatabase
    \/ \E r \in Runs, resp \in QueryResponses : Fetch1(r, resp)
    \/ \E r \in Runs, resp \in QueryResponses : Fetch2(r, resp)
    \/ \E r \in Runs : Reconcile(r)
    \/ \E r \in Runs : SyncDatabaseReturn(r)
    \/ \E search_term \in SearchTerms, species_filter \in SpeciesFilters,
          sex_filter \in SexFilters, archived_filter \in ArchivedFilters :
              CallFetchFiltered(search_term, species_filter, sex_filter, archived_filter)
    \/ \E r \in Runs : \E pets \in FetchFilteredPets(db, run[r].filters) :
              FetchFiltered(r, pets)
    \/ \E r \in Runs : FetchFilteredError(r)
    \/ \E r \in Runs : FetchFilteredReturn(r)

SpecQuery == Init /\ [][NextQuery]_vars

\* the filters the operator applies between the runs: the cleared filter bar
\* of _clear_filters_command and filters of _apply_filters_command
BarSearchTerms == {<<>>, <<"e">>}

BarSpeciesFilters == {"All", "Dog"}

\* everything that reads or writes the store: the runs of every kind, the
\* sheet update, and the table refreshed with the filters of the filter bar
NextStore ==
    \/ NextLive
    \/ \E search_term \in BarSearchTerms, species_filter \in BarSpeciesFilters,
          archived_filter \in ArchivedFilters :
              CallFetchFiltered(search_term, species_filter, "All", archived_filter)
    \/ \E r \in Runs : \E pets \in FetchFilteredPets(db, run[r].filters) :
              FetchFiltered(r, pets)
    \/ \E r \in Runs : FetchFilteredError(r)
    \/ \E r \in Runs : FetchFilteredReturn(r)

SpecStore == Init /\ [][NextStore]_vars

\* ------------------------------------------------------------- properties
FullKinds == {"manual", "initial", "scheduled"}

\* thread r takes this step
Moved(r) == run'[r] # run[r]

StampsUnchanged ==
    /\ config'.last_successful_sync_all = config.last_successful_sync_all
    /\ config'.last_successful_gsheet_update = config.last_successful_gsheet_update

\* the store was synchronised, update_google_sheet was called and returned False
MirrorFailed(rn) ==
    rn.kind \in FullKinds /\ rn.db_sync_ok /\ rn.pushes > 0 /\ ~rn.gsheet_update_ok

\* nothing was fetched after the retry, or the transaction failed
RunFailed(rn) == rn.kind \in FullKinds /\ (rn.retry_empty \/ rn.err = "sqlite3.Error")

\* fetch, transaction and update_google_sheet all succeeded
FullSuccess(rn) ==
    /\ rn.kind \in FullKinds
    /\ rn.db_sync_ok /\ rn.err = "none"
    /\ rn.pushes > 0 /\ rn.gsheet_update_ok

\* the last animal of the snapshot that carries id i
LastOcc(animals, i) ==
    animals[CHOOSE k \in 1..Len(animals) :
                /\ animals[k].id = i
                /\ \A j \in (k + 1)..Len(animals) : animals[j].id # i]

\* C1: in every reachable state at most one run, full or sheet-only, is in
\* flight, whatever the interleaving of the commands, the timer and the runs.
AtMostOneRunInFlight == Cardinality(InFlight) <= 1

\* C2: a manual sync-all or sheet-only trigger issued while a run is in flight
\* starts no run: no step taken with a run in flight starts a manual thread.
ManualTriggerWhileBusyIsNoOp ==
    [][InFlight # {} =>
         ~(\E r \in Runs : /\ run[r].pc = "idle"
                           /\ run'[r].kind \in {"manual", "gsheet"})]_vars

\* C3 as stated: a full run whose store sync succeeded and whose sheet update
\* failed writes its timestamp to last_successful_sync_all and leaves
\* last_successful_gsheet_update as it was.
MirrorFailureRecordsSyncStamp ==
    [][\A r \in Runs :
          (MirrorFailed(run[r]) /\ run[r].pc = "save" /\ Moved(r)) =>
              /\ config'.last_successful_sync_all = run[r].current_time
              /\ config'.last_successful_gsheet_update = config.last_successful_gsheet_update]_vars

\* C3 as amended: a full run whose store sync succeeded and whose sheet update
\* failed records neither timestamp: none of its steps changes
\* last_successful_sync_all or last_successful_gsheet_update.
MirrorFailureRecordsNothing ==
    [][\A r \in Runs : (MirrorFailed(run[r]) /\ Moved(r)) => StampsUnchanged]_vars

MirrorFailureWitness ==
    \E r \in Runs : MirrorFailed(run[r]) /\ run[r].pc = "finish"

\* C4: a full run whose fetch brings nothing after the retry, or whose
\* transaction fails, changes neither last_successful_sync_all nor
\* last_successful_gsheet_update in any of its steps.
FailedRunRecordsNothing ==
    [][\A r \in Runs :
          (Moved(r) /\ (RunFailed(run[r]) \/ RunFailed(run'[r]))) => StampsUnchanged]_vars

FailedRunWitness ==
    \E r \in Runs : /\ RunFailed(run[r]) /\ run[r].pc = "finish"
                    /\ config.last_successful_sync_all # 0

\* C5: a full run in which fetch, transaction and sheet update all succeed
\* saves both timestamps: its first save writes current_time_str to
\* last_successful_sync_all, and after its second save both settings hold it.
FullSuccessRecordsBoth ==
    [][\A r \in Runs :
          (FullSuccess(run[r]) /\ Moved(r)) =>
              /\ run[r].pc = "save" =>
                    /\ run'[r].pc = "save_gsheet"
                    /\ config'.last_successful_sync_all = run[r].current_time
              /\ run[r].pc = "save_gsheet" =>
                    /\ run'[r].pc = "finish"
                    /\ config'.last_successful_sync_all = run[r].current_time
                    /\ config'.last_successful_gsheet_update = run[r].current_time]_vars

FullSuccessWitness ==
    \E r \in Runs : /\ FullSuccess(run[r]) /\ run[r].pc = "finish"
                    /\ run[r].current_time > 1
                    /\ config.last_successful_sync_all = run[r].current_time
                    /\ config.last_successful_gsheet_update = run[r].current_time

\* C6: a call of sync_database whose snapshot is empty raises the no-data
\* error and leaves the archived flag and last_seen of every row as they
\* were; the transaction applied to an empty snapshot archives nothing; and a
\* row is archived only by the commit of a non-empty snapshot.
EmptySnapshotFrame ==
    \A i \in DOMAIN db :
        /\ i \in DOMAIN db'
        /\ db'[i].archived = db[i].archived
        /\ db'[i].last_seen = db[i].last_seen

EmptySnapshotSafe ==
    [][/\ \A r \in Runs :
            (Moved(r) /\ (run[r].retry_empty \/ run'[r].retry_empty)) =>
                /\ run[r].pc = "fetch2" => run'[r].err = "ConnectionError"
                /\ EmptySnapshotFrame
       /\ LET res == SyncTxn(db, <<>>, now)
          IN  /\ res.archived = 0
              /\ \A i \in DOMAIN db : /\ res.db[i].archived = db[i].archived
                                      /\ res.db[i].last_seen = db[i].last_seen
       /\ (\E i \in DOMAIN db : db[i].archived = 0 /\ db'[i].archived = 1) =>
              \E r \in Runs : run[r].pc = "txn" /\ run[r].animals # <<>> /\ Moved(r)]_vars

EmptySnapshotWitness ==
    \E r \in Runs : /\ run[r].retry_empty /\ run[r].err = "ConnectionError"
                    /\ \E i \in DOMAIN db : db[i].archived = 0

\* C7: a run whose fetch brings nothing after the retry fails with the fetch
\* error without having opened the store, and none of its steps changes the
\* store.
NoDataAborts(rn) ==
    rn.retry_empty =>
        /\ rn.err = "ConnectionError"
        /\ rn.pc = "finish"
        /\ rn.db_ops = 0
        /\ ~rn.db_sync_ok

FetchFailureLeavesStore ==
    [][\A r \in Runs :
          /\ NoDataAborts(run[r])
          /\ NoDataAborts(run'[r])
          /\ (Moved(r) /\ (run[r].retry_empty \/ run'[r].retry_empty)) => db' = db]_vars

FetchFailureWitness ==
    \E r \in Runs : /\ run[r].retry_empty /\ run[r].pc = "finish"
                    /\ run[r].kind \in FullKinds
                    /\ DOMAIN db # {}

\* C8: a run calls fetch_animals at most twice, and twice exactly when the
\* first call brought nothing.
AfterFetch(rn) == rn.kind \in FullKinds /\ rn.pc \notin {"start", "fetch1", "fetch2"}

FetchAtMostTwice ==
    \A r \in Runs :
        /\ run[r].fetches <= 2
        /\ run[r].fetches = 2 => run[r].first_empty
        /\ (run[r].first_empty /\ run[r].pc # "fetch2") => run[r].fetches = 2
        /\ (AfterFetch(run[r]) /\ ~run[r].first_empty) => run[r].fetches = 1

FetchRetryWitness ==
    \E r \in Runs : run[r].fetches = 2 /\ run[r].first_empty /\ run[r].pc = "txn"

\* C9: when a non-empty snapshot S2 is committed after snapshot S1, every row
\* whose id is in S1 and not in S2 is archived afterwards, and every id of S2
\* that was not in the store is inserted with archived = 0.
ArchivalCorrect ==
    [][\A r \in Runs :
          (run[r].pc = "txn" /\ run'[r].db_sync_ok /\ run[r].animals # <<>>) =>
              LET s2 == ActiveIds(run[r].animals)
              IN  /\ \A i \in lastSnap \ s2 : i \in DOMAIN db' /\ db'[i].archived = 1
                  /\ \A i \in s2 \ DOMAIN db : i \in DOMAIN db' /\ db'[i].archived = 0]_vars

ArchivalWitness ==
    \E i, j \in DOMAIN db :
        /\ i \notin lastSnap /\ db[i].archived = 1
        /\ j \in lastSnap /\ db[j].archived = 0
        /\ db[i].last_seen = db[j].last_seen

\* C10: a row that is archived and whose id is in a non-empty snapshot has,
\* after the commit of that snapshot, archived = 0, the descriptive fields of
\* the snapshot and last_seen equal to the sync_time of that run.
ReappearanceUnarchives ==
    [][\A r \in Runs :
          (run[r].pc = "txn" /\ run'[r].db_sync_ok /\ run[r].animals # <<>>) =>
              \A i \in DOMAIN db \cap ActiveIds(run[r].animals) :
                  db[i].archived = 1 =>
                      LET a == LastOcc(run[r].animals, i)
                      IN  /\ db'[i].archived = 0
                          /\ db'[i].name = a.name
                          /\ db'[i].species = a.species
                          /\ db'[i].breed = a.breed
                          /\ db'[i].sexSN = a.sexSN
                          /\ db'[i].last_seen = run[r].sync_time]_vars

ReappearanceWitness ==
    \E r \in Runs : \E i \in run[r].revived :
        /\ db[i].archived = 0
        /\ db[i].name = "mia"
        /\ db[i].last_seen = run[r].sync_time

\* two stores with the same ids and, for every id, the same descriptive
\* fields and the same archived flag
SameButLastSeen(d1, d2) ==
    /\ DOMAIN d1 = DOMAIN d2
    /\ \A i \in DOMAIN d1 :
          /\ d1[i].name = d2[i].name
          /\ d1[i].species = d2[i].species
          /\ d1[i].breed = d2[i].breed
          /\ d1[i].sexSN = d2[i].sexSN
          /\ d1[i].archived = d2[i].archived

\* C11: from every reachable store and for every non-empty snapshot, the
\* transaction of sync_database run now and then once more, now or later, on
\* the same snapshot leaves the same ids, descriptive fields and archived
\* flags as running it once.
ReconcileIdempotent ==
    \A a \in Snapshots : \A t2 \in now..MaxTime :
        LET d1 == SyncTxn(db, a, now).db
            d2 == SyncTxn(d1, a, t2).db
        IN  SameButLastSeen(d2, d1)

\* a committed store with an active and an archived row on which a second
\* pass of the committed snapshot changes last_seen and nothing else
ReconcileIdempotentWitness ==
    \E r \in Runs : \E a \in Snapshots :
        /\ run[r].pc = "query" /\ run[r].db_sync_ok
        /\ ActiveIds(a) = lastSnap
        /\ \E i, j \in DOMAIN db : db[i].archived = 0 /\ db[j].archived = 1
        /\ run[r].sync_time < MaxTime
        /\ LET d2 == SyncTxn(db, a, MaxTime).db
           IN  SameButLastSeen(d2, db) /\ d2 # db

\* the step in which thread r commits the transaction of sync_database
CommitStep(r) == run[r].pc = "txn" /\ run'[r].db_sync_ok /\ run[r].animals # <<>>

\* C12 as stated: a commit logs inserted = the snapshot ids absent from the
\* store before, updated = the snapshot ids present in the store before,
\* archived = the unarchived rows whose id is not in the snapshot; and a second
\* pass logs inserted = 0 and updated = what the first pass inserted.
CountsAsStated ==
    [][\A r \in Runs :
          CommitStep(r) =>
              LET s    == ActiveIds(run[r].animals)
                  res  == SyncTxn(db, run[r].animals, run[r].sync_time)
                  res2 == SyncTxn(db', run[r].animals, run[r].sync_time)
              IN  /\ res.inserted = Cardinality(s \ DOMAIN db)
                  /\ res.updated = Cardinality(s \cap DOMAIN db)
                  /\ res.archived =
                        Cardinality({i \in DOMAIN db : db[i].archived = 0 /\ i \notin s})
                  /\ res2.inserted = 0
                  /\ res2.updated = res.inserted]_vars

\* C12 as amended: a commit logs inserted = the rows it created (the snapshot
\* ids absent from the store before), updated = the other records of the
\* snapshot (each found in the store when it was applied), archived = the rows
\* it archived (unarchived before, id not in the snapshot); and a second pass
\* logs inserted = 0, updated = the records of the snapshot, archived = 0.
CountsPerRecord ==
    [][\A r \in Runs :
          CommitStep(r) =>
              LET s    == ActiveIds(run[r].animals)
                  n    == Len(SelectSeq(run[r].animals, LAMBDA a : a.id # Null))
                  res  == SyncTxn(db, run[r].animals, run[r].sync_time)
                  res2 == SyncTxn(db', run[r].animals, run[r].sync_time)
              IN  /\ res.inserted = Cardinality(s \ DOMAIN db)
                  /\ res.inserted = Cardinality(DOMAIN db' \ DOMAIN db)
                  /\ res.updated = n - res.inserted
                  /\ Cardinality(s) = n => res.updated = Cardinality(s \cap DOMAIN db)
                  /\ res.archived =
                        Cardinality({i \in DOMAIN db : db[i].archived = 0 /\ i \notin s})
                  /\ res.archived =
                        Cardinality({i \in DOMAIN db : db[i].archived = 0 /\ db'[i].archived = 1})
                  /\ res2.inserted = 0
                  /\ res2.updated = n
                  /\ res2.archived = 0]_vars

\* a commit that has written one row of its snapshot and archived another row
CountsWitness ==
    \E r \in Runs : \E i, j \in DOMAIN db :
        /\ run[r].pc = "query" /\ run[r].db_sync_ok
        /\ i \in lastSnap /\ db[i].archived = 0 /\ db[i].last_seen = run[r].sync_time
        /\ j \notin lastSnap /\ db[j].archived = 1 /\ db[j].last_seen = run[r].sync_time

\* C13: every row a commit inserts, updates or freshly archives has, after
\* the commit, last_seen equal to the one sync_time of that run, and every row
\* the commit changes is such a row.
OneSyncTimePerRun ==
    [][\A r \in Runs :
          CommitStep(r) =>
              \A i \in DOMAIN db' :
                  ( \/ i \in ActiveIds(run[r].animals)
                    \/ i \in DOMAIN db /\ db[i].archived = 0 /\ db'[i].archived = 1
                    \/ i \notin DOMAIN db
                    \/ db'[i] # db[i] )
                  => db'[i].last_seen = run[r].sync_time]_vars

\* a commit, made after the clock has moved on from its sync_time, that has
\* written one row and archived another
OneSyncTimeWitness ==
    \E r \in Runs : \E i, j \in DOMAIN db :
        /\ run[r].pc = "query" /\ run[r].db_sync_ok
        /\ run[r].sync_time < now
        /\ i \in lastSnap /\ db[i].last_seen = run[r].sync_time
        /\ j \notin lastSnap /\ db[j].archived = 1 /\ db[j].last_seen = run[r].sync_time
        /\ db[i].last_seen = db[j].last_seen

\* C14: while a transaction of sync_database is open the pets table stays
\* what it was when the transaction began, whatever upserts have been issued;
\* an error or the end of the process before the commit leaves it so and the
\* error reaches the caller; the commit makes every insert, update and archive
\* of the run visible at once.
ReconcileAtomic ==
    [][\A r \in Runs :
          /\ (run[r].pc \in {"upsert", "commit"} /\ ~run'[r].db_sync_ok) => db' = db
          /\ (run[r].pc \in {"upsert", "commit"} /\ run'[r].pc = "finish") =>
                 run'[r].err = "sqlite3.Error" /\ ~run'[r].db_sync_ok
          /\ (run[r].pc = "commit" /\ run'[r].db_sync_ok) =>
                 db' = SyncTxn(db, run[r].animals, run[r].sync_time).db]_vars

\* a transaction that failed after an INSERT had been issued, the inserted
\* row not being in the pets table
ReconcileAtomicWitness ==
    \E r \in Runs :
        /\ run[r].err = "sqlite3.Error" /\ run[r].pc = "finish"
        /\ run[r].pos > 1
        /\ \E k \in 1..(run[r].pos - 1) : run[r].animals[k].id \notin DOMAIN db
        /\ DOMAIN db # {}

\* C15: no step removes an id from the pets table, and a commit adds exactly
\* one row for each INSERT it issued, each for an id that had no row: the ids
\* of the table only grow and every id keeps its single row.
NeverDeletedNorDuplicated ==
    [][/\ DOMAIN db \subseteq DOMAIN db'
       /\ \A r \in Runs :
             (run[r].pc = "txn" /\ run'[r].db_sync_ok) =>
                 LET res == SyncTxn(db, run[r].animals, run[r].sync_time)
                 IN  /\ Cardinality(DOMAIN db') = Cardinality(DOMAIN db) + res.inserted
                     /\ DOMAIN db' = DOMAIN db \cup ActiveIds(run[r].animals)]_vars

\* a failed run and a table of two rows, one of them archived by an earlier
\* run and still there
NeverDeletedWitness ==
    \E r \in Runs : \E i, j \in DOMAIN db :
        /\ run[r].pc = "finish" /\ run[r].err # "none"
        /\ i # j
        /\ db[i].archived = 1 /\ db[j].archived = 0
        /\ db[i].last_seen < db[j].last_seen

\* C16: in every state of the pets table, whatever calls of sync_database
\* have overlapped, a row has archived = 0 exactly when its id is in the
\* snapshot of the last commit, and archived = 1 exactly when it is in the
\* table and not in that snapshot.
ArchivedIffAbsent ==
    /\ lastSnap \subseteq DOMAIN db
    /\ \A i \in DOMAIN db :
          /\ db[i].archived = 0 <=> i \in lastSnap
          /\ db[i].archived = 1 <=> i \notin lastSnap

\* two overlapping calls have both committed, the one that started first
\* committing last: its snapshot is the one the flags follow
ArchivedIffAbsentWitness ==
    \E r, q \in Runs : \E i, j \in DOMAIN db :
        /\ r # q
        /\ run[r].pc = "query" /\ run[r].db_sync_ok
        /\ run[q].pc = "query" /\ run[q].db_sync_ok
        /\ run[r].sync_time < run[q].sync_time
        /\ lastSnap = {i} /\ db[i].archived = 0 /\ db[i].last_seen = run[r].sync_time
        /\ db[j].archived = 1 /\ db[j].last_seen = run[r].sync_time

StopPreventsOnlyFutureRuns ==
    /\ [][/\ (sync_running /\ ~sync_running') => (~job' /\ run' = run)
          /\ ~job => ~(\E r \in Runs : run[r].pc = "idle" /\ run'[r].kind = "scheduled")
          /\ ~sync_running' => ~job']_vars
    /\ \A r \in Runs :
          (run[r].pc # "idle" /\ ~sync_running /\ ~job) ~> (run[r].pc = "idle")

\* auto sync has been stopped while an initial or scheduled run was executing,
\* and that run has reached its end
StopWitness ==
    \E r \in Runs :
        /\ ~sync_running /\ ~job
        /\ status.msg = "auto_stopped"
        /\ run[r].kind \in {"initial", "scheduled"}
        /\ run[r].pc = "finish"

\* the threads started by this step
Started == {r \in Runs : run[r].pc = "idle" /\ run'[r].pc # "idle"}

\* C19: start_auto_sync turns auto sync on, starts exactly one full run and
\* leaves the job with the scheduler; while the scheduler holds the job a tick
\* can fire, and every tick starts exactly one further full run, at the start
\* of the same thread body, without touching the buttons, the status or the
\* auto sync flag.
StartRunsOnceAndArmsTimer ==
    /\ [][/\ (~sync_running /\ sync_running') =>
                /\ job'
                /\ Cardinality(Started) = 1
                /\ \A r \in Started : run'[r].kind = "initial" /\ run'[r].pc = "start"
                /\ \A r \in Runs \ Started : run'[r] = run[r]
          /\ (\E r \in Started : run'[r].kind = "scheduled") =>
                /\ job /\ job' /\ sync_running /\ sync_running'
                /\ Cardinality(Started) = 1
                /\ \A r \in Started : run'[r].pc = "start" /\ run'[r].kind \in FullKinds
                /\ \A r \in Runs \ Started : run'[r] = run[r]
                /\ btn' = btn /\ status' = status]_vars
    /\ [](sync_running => job)
    /\ []((job /\ HasFreeSlot) => ENABLED ScheduledSyncAllTask)

\* auto sync is on, its initial run is over, and a run started by a tick has
\* reached its end
StartWitness ==
    \E r \in Runs :
        /\ sync_running /\ job
        /\ run[r].kind = "scheduled" /\ run[r].pc = "finish"
        /\ \A q \in Runs : run[q].kind # "initial"

\* the statuses a run reports when it ends
TerminalMsgs ==
    {"complete", "db_ok_gsheet_failed", "fetch_failed", "db_failed",
     "gsheet_complete", "gsheet_failed", "no_data"}

\* C20: the status a run reports when it ends is not replaced by another
\* status of the same run: the table refresh a run posts right after its final
\* status leaves the status label as that status set it.
RunStatusNotReplaced ==
    [][(/\ uiQueue # <<>>
        /\ Head(uiQueue).cb = "refresh"
        /\ status.msg \in TerminalMsgs) => status' = status]_vars

\* every button is disabled, as trigger_manual_sync_all and
\* trigger_manual_gsheet_update leave them
Busy == ~btn.start /\ ~btn.stop /\ ~btn.manual_all /\ ~btn.manual_gsheet

\* every run that has started returns; when it returns it hands the main loop
\* one of the terminal statuses and update_button_states; and whenever every
\* button is disabled a button is enabled again later
RunsReturnAndRelease ==
    /\ \A r \in Runs : (run[r].pc # "idle") ~> (run[r].pc = "idle")
    /\ [][\A r \in Runs :
             (run[r].pc # "idle" /\ run'[r].pc = "idle") =>
                 /\ run[r].pc = "finish"
                 /\ \E k \in (Len(uiQueue) + 1)..Len(uiQueue') :
                       uiQueue'[k].cb = "status" /\ uiQueue'[k].msg \in TerminalMsgs
                 /\ uiQueue'[Len(uiQueue')].cb = "buttons"]_vars
    /\ Busy ~> ~Busy

\* C21: every run that has started returns and releases the buttons, and the
\* status label shows one of the terminal statuses after the run has reached
\* its end, whichever stage of the run failed.
EveryRunEnds ==
    /\ RunsReturnAndRelease
    /\ \A r \in Runs : (run[r].pc = "finish") ~> (status.msg \in TerminalMsgs)

\* C22: a full run whose transaction committed and whose update_google_sheet
\* returned False ends by handing the main loop the status "DB OK, GSheet
\* update FAILED", flagged as an error and different from the status of a
\* successful run and from the status of a run whose transaction failed; the
\* main loop puts it on the status label; and from the call of
\* update_google_sheet to the end of the run no step of the run changes the
\* store, which holds every animal of the committed snapshot as active.
MirrorFailureReported ==
    /\ [][\A r \in Runs :
             (run[r].pc = "finish" /\ run'[r].pc = "idle" /\ MirrorFailed(run[r])) =>
                 \E k \in (Len(uiQueue) + 1)..Len(uiQueue') :
                     /\ uiQueue'[k] = Callback("status", "db_ok_gsheet_failed", TRUE)
                     /\ \A rn \in {run[q] : q \in Runs} \cup {NoRun} :
                           (FullSuccess(rn) \/ rn.err = "sqlite3.Error")
                               => FinalStatus(rn) # uiQueue'[k]]_vars
    /\ [][(/\ uiQueue # <<>>
            /\ uiQueue' = Tail(uiQueue)
            /\ Head(uiQueue).msg = "db_ok_gsheet_failed") =>
              status' = [msg |-> "db_ok_gsheet_failed", err |-> TRUE]]_vars
    /\ [][\A r \in Runs :
             (Moved(r) /\ run[r].kind \in FullKinds /\ run[r].db_sync_ok
                  /\ run[r].pc \in {"push", "save", "save_gsheet", "finish"}) => db' = db]_vars
    /\ [](\A r \in Runs :
            MirrorFailed(run[r]) =>
                \A i \in lastSnap : i \in DOMAIN db /\ db[i].archived = 0)

\* the status label shows the partial success of a run that committed a
\* snapshot listing A1 and whose sheet update failed
MirrorFailureReportedWitness ==
    /\ status = [msg |-> "db_ok_gsheet_failed", err |-> TRUE]
    /\ "A1" \in lastSnap
    /\ "A1" \in DOMAIN db /\ db["A1"].archived = 0
    /\ sheet.rows = <<>>

\* the rows of a sequence
Range(q) == {q[k] : k \in DOMAIN q}

\* C23: the rows a full or sheet-only run is about to hand to
\* update_google_sheet are the rows fetch_filtered_pets_from_db returned for
\* archived_filter "All", in their order, all of them when
\* sync_archived_to_gsheet is set and those with archived = 0 when it is not:
\* with the setting off no archived row is among them, with the setting on
\* every record of the store is among them exactly once; and these are the
\* rows update_google_sheet writes.
MirrorRowsFollowSetting ==
    /\ [][\A r \in Runs :
             (run[r].pc = "query" /\ run'[r].pc = "push") =>
                 LET sent == run'[r].pets
                 IN  /\ run[r].kind \in FullKinds \cup {"gsheet"}
                     /\ \E all_pets \in QueryAll(db) :
                           sent = IF config.sync_archived_to_gsheet THEN all_pets
                                  ELSE SelectSeq(all_pets, LAMBDA p : p.archived = 0)
                     /\ Cardinality(Range(sent)) = Len(sent)
                     /\ ~config.sync_archived_to_gsheet =>
                           /\ \A k \in DOMAIN sent : sent[k].archived = 0
                           /\ Range(sent) = {ViewRow(db, i) :
                                                i \in {j \in DOMAIN db : db[j].archived = 0}}
                     /\ config.sync_archived_to_gsheet =>
                           Range(sent) = {ViewRow(db, i) : i \in DOMAIN db}]_vars
    /\ [][\A r \in Runs :
             (run[r].pc = "push" /\ Moved(r)) =>
                 /\ run'[r].pushes = run[r].pushes + 1
                 /\ sheet' # sheet => sheet'.rows \in {<<>>, SheetRows(run[r].pets)}]_vars

\* with the setting off a run is about to push the one active record of a
\* store that also holds an archived record
MirrorRowsWitness ==
    \E r \in Runs :
        /\ run[r].pc = "push"
        /\ ~config.sync_archived_to_gsheet
        /\ Len(run[r].pets) = 1
        /\ \E i \in DOMAIN db : db[i].archived = 1

\* with the setting on a run is about to push an archived record next to an
\* active one
MirrorRowsWitnessAll ==
    \E r \in Runs :
        /\ run[r].pc = "push"
        /\ config.sync_archived_to_gsheet
        /\ \E k, l \in DOMAIN run[r].pets :
              run[r].pets[k].archived = 1 /\ run[r].pets[l].archived = 0

\* update_google_sheet was called by the run and returned True
PushSucceeded(rn) == rn.pushes > 0 /\ rn.gsheet_update_ok

Returned(r) == run[r].pc = "select" /\ run'[r].pc = "shown" /\ run'[r].err = "none"

\* a capital and its small letter
CasePairs ==
    {<<"A", "a">>, <<"C", "c">>, <<"D", "d">>, <<"E", "e">>, <<"F", "f">>, <<"L", "l">>,
     <<"M", "m">>, <<"O", "o">>, <<"R", "r">>, <<"X", "x">>}

SameLetter(c, d) == c = d \/ <<c, d>> \in CasePairs \/ <<d, c>> \in CasePairs

\* x and y are the same text when case is ignored
SameIgnoringCase(x, y) ==
    Len(x) = Len(y) /\ \A k \in DOMAIN x : SameLetter(x[k], y[k])

\* the letters of the names in alphabetical order
Alphabet == <<"a", "e", "i", "m", "r", "x">>

LetterRank(c) == CHOOSE k \in DOMAIN Alphabet : SameLetter(c, Alphabet[k])

\* x comes no later than y in alphabetical order, case ignored
RECURSIVE AlphaLeq(_, _)
AlphaLeq(x, y) ==
    IF x = <<>> THEN TRUE
    ELSE IF y = <<>> THEN FALSE
    ELSE \/ LetterRank(Head(x)) < LetterRank(Head(y))
         \/ LetterRank(Head(x)) = LetterRank(Head(y)) /\ AlphaLeq(Tail(x), Tail(y))

\* C25: fetch_filtered_pets_from_db("", "All", "All", "All") returns every
\* record of the store exactly once, the rows with archived = 0 before the
\* rows with archived = 1, and within each of the two groups the rows that
\* have a name in alphabetical order of the names, case ignored.
QueryAllOrdered ==
    [][\A r \in Runs :
          (Returned(r) /\ run[r].filters = NoFilters) =>
              LET pets == run'[r].pets
              IN  /\ Range(pets) = {ViewRow(db, i) : i \in DOMAIN db}
                  /\ Len(pets) = Cardinality(DOMAIN db)
                  /\ \A k, l \in DOMAIN pets :
                        k < l => pets[k].archived <= pets[l].archived
                  /\ \A k, l \in DOMAIN pets :
                        (/\ k < l
                         /\ pets[k].archived = pets[l].archived
                         /\ pets[k].name # Null /\ pets[l].name # Null)
                            => AlphaLeq(Spelling[pets[k].name], Spelling[pets[l].name])]_vars

\* text t occurs in x, case ignored
IsSubstring(t, x) ==
    \E k \in 0..(Len(x) - Len(t)) : \A j \in DOMAIN t : SameLetter(t[j], x[k + j])

\* the column has a value and t occurs in it
Contains(value, t) == value # Null /\ IsSubstring(t, Spelling[value])

\* the column has a value and it is the text of the filter, case ignored
IsValue(value, filter) ==
    value # Null /\ SameIgnoringCase(Spelling[value], Spelling[filter])

\* record i passes the species, sex and archived filters
PassesFilters(d, i, f) ==
    /\ f.species_filter \in {"All", ""} \/ IsValue(d[i].species, f.species_filter)
    /\ f.sex_filter \in {"All", ""} \/ IsValue(d[i].sexSN, f.sex_filter)
    /\ \/ f.archived_filter = "All"
       \/ f.archived_filter = "Active" /\ d[i].archived = 0
       \/ f.archived_filter = "Archived" /\ d[i].archived = 1

\* C26: with a search term that is not empty fetch_filtered_pets_from_db
\* returns exactly the records that pass the species, sex and archived
\* filters and have the search term, case ignored, as a substring of their
\* id, name, species or breed; a record none of whose four columns holds a
\* value containing the term is not returned.
SearchIsSubstring ==
    [][\A r \in Runs :
          (Returned(r) /\ run[r].filters.search_term # <<>>) =>
              LET f == run[r].filters
                  t == f.search_term
              IN  Range(run'[r].pets) =
                      {ViewRow(db, i) :
                          i \in {j \in DOMAIN db :
                                    /\ PassesFilters(db, j, f)
                                    /\ \/ Contains(j, t)
                                       \/ Contains(db[j].name, t)
                                       \/ Contains(db[j].species, t)
                                       \/ Contains(db[j].breed, t)}}]_vars

\* C27: every row fetch_filtered_pets_from_db returns has archived = 0 under
\* "Active" and archived = 1 under "Archived"; a species or sex filter of "All"
\* or "" excludes nothing and any other value keeps the records whose column
\* is that value, case ignored; with no search term the rows returned are
\* exactly the records that pass the three filters, so that "All" with no
\* other filter returns the active and the archived records alike.
FiltersSelect ==
    [][\A r \in Runs :
          Returned(r) =>
              LET f == run[r].filters
                  pets == run'[r].pets
              IN  /\ \A k \in DOMAIN pets :
                        /\ pets[k].id \in DOMAIN db
                        /\ pets[k] = ViewRow(db, pets[k].id)
                        /\ PassesFilters(db, pets[k].id, f)
                  /\ f.search_term = <<>> =>
                        Range(pets) = {ViewRow(db, i) :
                                          i \in {j \in DOMAIN db : PassesFilters(db, j, f)}}
                  /\ (/\ f.search_term = <<>> /\ f.archived_filter = "All"
                      /\ f.species_filter \in {"All", ""} /\ f.sex_filter \in {"All", ""})
                        => Range(pets) = {ViewRow(db, i) : i \in DOMAIN db}]_vars

\* the species filter "Dog" with the status "Archived" has returned the archived
\* record whose species is written "dog" and left out another record
FiltersSelectWitness ==
    \E r \in Runs :
        /\ run[r].pc = "shown" /\ run[r].err = "none"
        /\ run[r].filters.species_filter = "Dog"
        /\ run[r].filters.archived_filter = "Archived"
        /\ run[r].filters.search_term = <<>>
        /\ Len(run[r].pets) = 1
        /\ run[r].pets[1].species = "dog" /\ run[r].pets[1].archived = 1
        /\ Cardinality(DOMAIN db) = 2

\* row holds the descriptive fields of animal a
HoldsFields(row, a) ==
    /\ row.name = a.name /\ row.species = a.species
    /\ row.breed = a.breed /\ row.sexSN = a.sexSN

\* C28: the loop of sync_database takes the animals in fetched order: after
\* each pass the pets table of the transaction, keyed by id, holds for every
\* id met so far one row with the descriptive fields of the last animal met
\* with that id; and the store a commit leaves holds, for every id of the
\* snapshot, one unarchived row with the fields of the last occurrence of
\* that id in the snapshot.
DuplicateIdLastWins ==
    /\ [](\A r \in Runs :
            run[r].pc \in {"upsert", "commit"} =>
                LET done == SubSeq(run[r].animals, 1, run[r].pos - 1)
                IN  \A i \in ActiveIds(done) :
                        /\ i \in DOMAIN run[r].work
                        /\ HoldsFields(run[r].work[i], LastOcc(done, i))
                        /\ run[r].work[i].archived = 0)
    /\ [][\A r \in Runs :
             (run[r].pc = "commit" /\ run'[r].db_sync_ok) =>
                 \A i \in ActiveIds(run[r].animals) :
                     /\ i \in DOMAIN db'
                     /\ HoldsFields(db'[i], LastOcc(run[r].animals, i))
                     /\ db'[i].archived = 0
                     /\ db'[i].last_seen = run[r].sync_time]_vars

\* a snapshot that lists A1 as Rex and then as mia has been committed and the
\* store holds A1 as mia
DuplicateIdWitness ==
    \E r \in Runs :
        /\ run[r].pc = "query" /\ run[r].db_sync_ok
        /\ run[r].animals = <<Item("A1", "Rex"), Item("A1", "mia")>>
        /\ "A1" \in DOMAIN db /\ db["A1"].name = "mia"

\* C29: a commit of sync_database leaves every row that was archived before
\* it and whose id is not in the snapshot exactly as it was, archived flag,
\* descriptive fields and last_seen; and the archived count it logs is the
\* number of rows the commit turned from unarchived to archived, so that no
\* such row is counted.
ArchivedAbsentUntouched ==
    [][\A r \in Runs :
          CommitStep(r) =>
              LET active == ActiveIds(run[r].animals)
                  before == {i \in DOMAIN db : db[i].archived = 1 /\ i \notin active}
              IN  /\ \A i \in before : i \in DOMAIN db' /\ db'[i] = db[i]
                  /\ SyncTxn(db, run[r].animals, run[r].sync_time).archived =
                         Cardinality({i \in DOMAIN db :
                                         db[i].archived = 0 /\ db'[i].archived = 1})
                  /\ SyncTxn(db, run[r].animals, run[r].sync_time).archived <=
                         Cardinality(DOMAIN db \ before)]_vars

\* a snapshot that lists A2 only has been committed after A1 was archived by
\* an earlier commit: A1 still carries the last_seen of that earlier commit
ArchivedAbsentWitness ==
    \E r \in Runs :
        /\ run[r].pc = "query" /\ run[r].db_sync_ok
        /\ lastSnap = {"A2"}
        /\ DOMAIN db = {"A1", "A2"}
        /\ db["A1"].archived = 1 /\ db["A2"].archived = 0
        /\ db["A1"].last_seen < db["A2"].last_seen
        /\ db["A2"].last_seen = run[r].sync_time

\* C30: the pets table changes only at the commit of sync_database in a full
\* run; no step of a sheet-only run, no call of fetch_filtered_pets_from_db
\* for the table, and no call of update_google_sheet changes a row of it; and
\* no step of a sheet-only run changes last_successful_sync_all.
StoreChangedByReconcileOnly ==
    /\ [][db' # db =>
             \E r \in Runs :
                 /\ run[r].kind \in FullKinds
                 /\ run[r].pc = "txn" /\ run'[r].pc = "query" /\ run'[r].db_sync_ok]_vars
    /\ [][\A r \in Runs :
             (Moved(r) /\ (run[r].kind \in {"gsheet", "read"} \/ run'[r].kind \in {"gsheet", "read"}))
                 => db' = db]_vars
    /\ [][\A r \in Runs : (Moved(r) /\ run[r].pc = "push") => db' = db]_vars
    /\ [][\A r \in Runs :
             (Moved(r) /\ (run[r].kind = "gsheet" \/ run'[r].kind = "gsheet"))
                 => config'.last_successful_sync_all = config.last_successful_sync_all]_vars

\* a sheet-only run has pushed the rows of a store whose full run recorded
\* nothing: last_successful_gsheet_update is the time of the sheet-only run
\* and last_successful_sync_all is as it was at the start
StoreChangedWitness ==
    \E r \in Runs :
        /\ run[r].kind = "gsheet" /\ run[r].pc = "finish"
        /\ PushSucceeded(run[r])
        /\ db # EmptyDb
        /\ sheet.rows # <<>>
        /\ config.last_successful_gsheet_update = run[r].current_time
        /\ config.last_successful_sync_all = 0

\* C31: a full run whose fetch brought nothing after the retry, or whose
\* transaction failed, never calls update_google_sheet and never reads the
\* store for the sheet: it has made no call of update_google_sheet, it has
\* opened the store at most once (for the failed transaction, never after a
\* failed fetch), and it takes the query and the push steps only with
\* db_sync_ok set; neither the store nor the sheet is changed by it.
FailureShortCircuits ==
    /\ [](\A r \in Runs :
            RunFailed(run[r]) =>
                /\ run[r].pushes = 0
                /\ ~run[r].any_pets_for_sheet /\ run[r].pets = <<>>
                /\ ~run[r].db_sync_ok
                /\ run[r].db_ops = IF run[r].err = "sqlite3.Error" THEN 1 ELSE 0
                /\ run[r].pc \in {"finish", "idle"})
    /\ [][\A r \in Runs :
             (Moved(r) /\ run[r].kind \in FullKinds /\ run[r].pc \in {"query", "push"})
                 => run[r].db_sync_ok /\ run[r].err = "none"]_vars
    /\ [][\A r \in Runs :
             (Moved(r) /\ RunFailed(run[r])) => sheet' = sheet /\ db' = db]_vars

\* a full run whose transaction failed is at its end over a store that holds
\* a record and a sheet that holds its row: it has opened the store once and
\* has not called update_google_sheet
FailureShortCircuitsWitness ==
    \E r \in Runs :
        /\ run[r].kind \in FullKinds /\ run[r].pc = "finish"
        /\ run[r].err = "sqlite3.Error"
        /\ run[r].db_ops = 1 /\ run[r].pushes = 0
        /\ db # EmptyDb /\ sheet.rows # <<>>

\* r writes last_successful_gsheet_update at this step
SavesGsheetStamp(r) ==
    /\ Moved(r)
    /\ \/ run[r].pc = "save_gsheet"
       \/ run[r].pc = "save" /\ run[r].kind = "gsheet"

\* C32: a run writes last_successful_gsheet_update only if it has called
\* update_google_sheet and the call returned True; a run whose read of the
\* store for the sheet came back empty does not write it, and no other step
\* changes it.
MirrorStampOnlyAfterPush ==
    /\ [][\A r \in Runs : SavesGsheetStamp(r) => PushSucceeded(run[r])]_vars
    /\ [][config'.last_successful_gsheet_update # config.last_successful_gsheet_update
             => \E r \in Runs : SavesGsheetStamp(r) /\ PushSucceeded(run[r])]_vars

\* C33: no step lowers the last_seen of a record of the store, whatever the
\* order in which the calls of sync_database take their sync_time, fetch and
\* commit: every record is still in the store after the step and its
\* last_seen is at least what it was.
LastSeenNeverDecreases ==
    [][\A i \in DOMAIN db :
          i \in DOMAIN db' /\ db'[i].last_seen >= db[i].last_seen]_vars

\* C34: the scheduler holds the job 'pet_sync_job' exactly while sync_running
\* is set; the job changes only in a step that starts or stops auto sync; a
\* start is taken only while auto sync is off and the scheduler holds no job,
\* so that add_job never meets a job that is already there, and a stop only
\* while auto sync is on; while auto sync is on start_auto_sync has no
\* effect, and while it is off stop_auto_sync has none.
TimerArmedIffAutoSync ==
    /\ [](job <=> sync_running)
    /\ [][job' # job => sync_running' # sync_running]_vars
    /\ [][(~sync_running /\ sync_running') => (~job /\ job')]_vars
    /\ [][(sync_running /\ ~sync_running') => (job /\ ~job')]_vars
    /\ [](sync_running => ~ENABLED StartAutoSync)
    /\ [](~sync_running => ~ENABLED StopAutoSync)

\* auto sync was started, stopped and started again while the first initial
\* run was still executing: two initial runs are in flight and the scheduler
\* holds the job
TimerArmedWitness ==
    /\ sync_running /\ job
    /\ Cardinality({r \in Runs : run[r].kind = "initial"}) = 2

\* C35: once sync_database has committed a snapshot, and whenever the store
\* holds a record at all, the store holds a record with archived = 0; and
\* every commit leaves at least one record of its snapshot unarchived.
SomeRecordActive ==
    /\ [](((lastSnap # {}) \/ (DOMAIN db # {})) =>
             \E i \in DOMAIN db : db[i].archived = 0)
    /\ [][\A r \in Runs :
             CommitStep(r) =>
                 /\ ActiveIds(run[r].animals) # {}
                 /\ \E i \in ActiveIds(run[r].animals) :
                       i \in DOMAIN db' /\ db'[i].archived = 0]_vars

\* a snapshot that lists A1 only has been committed over a store that held
\* A2: A2 is archived and A1 is not
SomeRecordActiveWitness ==
    \E r \in Runs :
        /\ run[r].pc = "query" /\ run[r].db_sync_ok
        /\ lastSnap = {"A1"}
        /\ DOMAIN db = {"A1", "A2"}
        /\ db["A2"].archived = 1 /\ db["A1"].archived = 0

=============================================================================
